---- MODULE Spec2Model ----
(***************************************************************************)
(* Model of the linkerine-server feed proxy: the /feed pipeline            *)
(* (routes/feed.ts, fetchAndParseFeed), the /discover handler              *)
(* (routes/discover.ts) and the pure helpers they share.                   *)
(*                                                                         *)
(* Strings are sequences of tokens (TLA+ strings).  A token stands for a   *)
(* run of characters that the code never splits: an origin, a path, a      *)
(* MIME type, a quote, a blank, one character of article content.          *)
(***************************************************************************)
EXTENDS Integers, Sequences, FiniteSets, TLC

\* ------------------------------------------------------------------ bounds
\* most <link> tags in one HTML body
MaxTags == 2
\* how many of COMMON_PATHS are probed
MaxPaths == 2
\* the fetch counter saturates here
MaxFetches == 4
\* most items in one parsed feed
MaxItems == 2
\* longest article content, in characters
MaxContentLen == 304

\* ----------------------------------------------------------- string helpers
Undefined == <<"#undefined">>
Empty == <<>>

Quotes == {"\"", "'"}
Blanks == {" "}

RECURSIVE DropLeft(_, _)
DropLeft(s, chars) ==
    IF s # <<>> /\ Head(s) \in chars THEN DropLeft(Tail(s), chars) ELSE s

RECURSIVE DropRight(_, _)
DropRight(s, chars) ==
    IF s # <<>> /\ s[Len(s)] \in chars
    THEN DropRight(SubSeq(s, 1, Len(s) - 1), chars)
    ELSE s

\* String.prototype.trim / trimStart
Trim(s) == DropRight(DropLeft(s, Blanks), Blanks)
TrimStart(s) == DropLeft(s, Blanks)

\* s.replace(/^["']+|["']+$/g, '').trim()
CleanUrl(s) == Trim(DropRight(DropLeft(s, Quotes), Quotes))

\* String.prototype.toLowerCase, token by token
LowerTok(t) ==
    CASE t = "ALTERNATE" -> "alternate"
      [] t = "Application/RSS+XML" -> "application/rss+xml"
      [] OTHER -> t
ToLowerCase(s) == [i \in 1..Len(s) |-> LowerTok(s[i])]

\* s.split(';')[0]
RECURSIVE BeforeSemicolon(_)
BeforeSemicolon(s) ==
    IF s = <<>> \/ Head(s) = ";" THEN <<>>
    ELSE <<Head(s)>> \o BeforeSemicolon(Tail(s))

Includes(s, tok) == \E i \in 1..Len(s) : s[i] = tok

\* ------------------------------------------------------------------- URLs
Origins == {"https://a", "https://b"}
PathToks == {"/page", "/feed", "/feed.xml", "/rss", "/rss.xml", "/atom.xml",
             "/index.xml", "/feed/index.xml", "/blog/feed", "/blog/rss"}

\* new URL(s) succeeds
IsAbsUrl(s) == Len(s) = 2 /\ s[1] \in Origins /\ s[2] \in PathToks
\* a path-absolute reference, resolvable against a base
IsRelRef(s) == Len(s) = 1 /\ s[1] \in PathToks
\* new URL(s).origin
OriginOf(s) == <<s[1]>>

\* toAbsolute(href, base): new URL(href, base).toString(), the raw href when
\* that throws
toAbsolute(href, base) ==
    IF IsAbsUrl(href) THEN href
    ELSE IF IsRelRef(href) /\ IsAbsUrl(base) THEN OriginOf(base) \o href
    ELSE href

\* --------------------------------------------------------- discover.ts data
FEED_TYPES == {"application/rss+xml", "application/atom+xml",
               "application/feed+json", "application/x-atom+xml",
               "application/rdf+xml", "text/xml"}

COMMON_PATHS == <<"/feed", "/feed.xml", "/rss", "/rss.xml", "/atom.xml",
                  "/index.xml", "/feed/index.xml", "/blog/feed", "/blog/rss">>

\* FEED_TYPES.has(s)
IsFeedType(s) == Len(s) = 1 /\ s[1] \in FEED_TYPES

\* attrValue(attrs, name): the tag is a record of its attributes, Undefined
\* when the attribute is absent
attrValue(attrs, name) == attrs[name]

\* one <link ...> tag kept by extractFeedLinks, as a DiscoveredFeed
LinkFeed(tag, baseUrl) ==
    LET type == IF attrValue(tag, "type") = Undefined THEN Empty
                ELSE attrValue(tag, "type")
        title == IF attrValue(tag, "title") = Undefined THEN type
                 ELSE attrValue(tag, "title")
    IN [url |-> toAbsolute(attrValue(tag, "href"), baseUrl),
        title |-> title, type |-> type, source |-> "html-link"]

\* the guards of the loop body of extractFeedLinks
TagIsFeedLink(tag) ==
    LET rel == attrValue(tag, "rel")
        type == IF attrValue(tag, "type") = Undefined THEN Empty
                ELSE attrValue(tag, "type")
        href == attrValue(tag, "href")
    IN /\ rel # Undefined /\ rel # Empty
       /\ Includes(ToLowerCase(rel), "alternate")
       /\ IsFeedType(Trim(BeforeSemicolon(ToLowerCase(type))))
       /\ href # Undefined /\ href # Empty

RECURSIVE extractFeedLinks(_, _)
extractFeedLinks(html, baseUrl) ==
    IF html = <<>> THEN <<>>
    ELSE (IF TagIsFeedLink(Head(html))
          THEN <<LinkFeed(Head(html), baseUrl)>> ELSE <<>>)
         \o extractFeedLinks(Tail(html), baseUrl)

\* ------------------------------------------------------- feed.ts: helpers
\* GenericParsedNode leaves, as fast-xml-parser hands them over
AbsentN == [k |-> "absent", v |-> Empty, n |-> 0, cdata |-> Undefined, text |-> Undefined]
StrN(s) == [k |-> "str", v |-> s, n |-> 0, cdata |-> Undefined, text |-> Undefined]
NumN(i) == [k |-> "num", v |-> Empty, n |-> i, cdata |-> Undefined, text |-> Undefined]
ObjN(c, t) == [k |-> "obj", v |-> Empty, n |-> 0, cdata |-> c, text |-> t]

\* JavaScript truthiness of an object property holding a string or nothing
Truthy(s) == s # Undefined /\ s # Empty

ObjectObject == <<"[object Object]">>

\* extractText(node)
extractText(node) ==
    CASE node.k = "absent" -> Empty
      [] node.k = "str" -> node.v
      [] node.k = "num" -> IF node.n = 0 THEN Empty ELSE <<ToString(node.n)>>
      [] OTHER -> IF Truthy(node.cdata) THEN node.cdata
                  ELSE IF Truthy(node.text) THEN node.text
                  ELSE ObjectObject

\* the shapes of item['link']
AbsentL == [k |-> "absent", v |-> Empty, href |-> Undefined, els |-> <<>>]
StrL(s) == [k |-> "str", v |-> s, href |-> Undefined, els |-> <<>>]
NumL == [k |-> "num", v |-> Empty, href |-> Undefined, els |-> <<>>]
ObjL(h) == [k |-> "obj", v |-> Empty, href |-> h, els |-> <<>>]
ArrL(es) == [k |-> "arr", v |-> Empty, href |-> Undefined, els |-> es]

\* the loop without its test of the relation: the first entry is taken
FirstAlternateMutAnyRel(els) ==
    IF els # <<>> /\ Head(els).href # Undefined THEN Head(els).href ELSE Empty

\* the for loop of extractLink over an array of link objects
RECURSIVE FirstAlternate(_)
FirstAlternate(els) ==
    IF els = <<>> THEN Empty
    ELSE LET lo == Head(els)
         IN IF (lo.rel = <<"alternate">> \/ ~Truthy(lo.rel)) /\ lo.href # Undefined
            THEN lo.href
            ELSE FirstAlternate(Tail(els))

\* extractLink(item)
extractLink(item) ==
    LET raw == item.link
    IN CASE raw.k = "str" -> raw.v
         [] raw.k = "obj" -> IF raw.href # Undefined THEN raw.href ELSE Empty
         [] raw.k = "arr" -> FirstAlternate(raw.els)
         [] OTHER -> Empty

\* dates: a date string is <<format, instant>>; anything else does not parse
DateFormats == {"rfc822", "iso8601"}
Instants == {"t1", "t2", "n1", "n2"}
\* !isNaN(Date.parse(s))
DateParses(s) == Len(s) = 2 /\ s[1] \in DateFormats /\ s[2] \in Instants
\* new Date(s).toISOString()
ToISOString(s) == <<"iso8601", s[2]>>

\* a ?? b ?? c over nodes
Coalesce(a, b, c) == IF a.k # "absent" THEN a ELSE IF b.k # "absent" THEN b ELSE c

SNIPPET_LEN == 300
Ellipsis == <<".", ".", ".">>

\* the same with >= for >: a content of exactly 300 characters gets the marker
contentSnippetMutOffByOne(content) ==
    SubSeq(content, 1, IF Len(content) < SNIPPET_LEN THEN Len(content) ELSE SNIPPET_LEN)
        \o (IF Len(content) >= SNIPPET_LEN THEN Ellipsis ELSE <<>>)
\* content.substring(0, 300) + (content.length > 300 ? '...' : '')
contentSnippet(content) ==
    SubSeq(content, 1, IF Len(content) < SNIPPET_LEN THEN Len(content) ELSE SNIPPET_LEN)
        \o (IF Len(content) > SNIPPET_LEN THEN Ellipsis ELSE <<>>)

\* the .map callback: one raw item to one Article; now is new Date() there
toArticle(item, now) ==
    LET title == extractText(item.title)
        link == extractLink(item)
        pubDateRaw == extractText(Coalesce(item.pubDate, item.published, item.updated))
        pubDate == IF pubDateRaw # Empty /\ DateParses(pubDateRaw)
                   THEN ToISOString(pubDateRaw)
                   ELSE <<"iso8601", now>>
        content == extractText(Coalesce(item.contentEncoded, item.content, item.description))
    IN [id |-> IF link # Empty THEN link ELSE title,
        title |-> title, link |-> link, pubDate |-> pubDate,
        contentSnippet |-> contentSnippet(content), content |-> content]

\* the filter without its test of the link
keepArticleMutTitleOnly(a) == a.title # Empty
\* .filter((a) => a.link && a.title)
keepArticle(a) == a.link # Empty /\ a.title # Empty

RECURSIVE Filter(_)
Filter(as) ==
    IF as = <<>> THEN <<>>
    ELSE (IF keepArticle(Head(as)) THEN <<Head(as)>> ELSE <<>>) \o Filter(Tail(as))

\* Array.isArray(item) ? item : item ? [item] : []
rawItemsOf(field) ==
    CASE field.k = "array" -> field.items
      [] field.k = "single" -> field.items
      [] OTHER -> <<>>

\* feedTitle after the rss / feed branches (lines 159-171)
feedTitleOf(parsed, url) ==
    IF parsed.root \in {"rss", "feed"} THEN extractText(parsed.title) ELSE url

\* lines 154-199: the parsed tree to the response body; throws (ok = FALSE)
\* when parsed.rss has no channel
Normalise(parsed, url, clock) ==
    IF parsed.root = "rss" /\ ~parsed.channel
    THEN [ok |-> FALSE, feedTitle |-> Empty, articles |-> <<>>]
    ELSE LET rawItems == IF parsed.root \in {"rss", "feed"}
                         THEN rawItemsOf(parsed.items) ELSE <<>>
             mapped == [i \in 1..Len(rawItems) |-> toArticle(rawItems[i], clock[i])]
         IN [ok |-> TRUE, feedTitle |-> feedTitleOf(parsed, url),
             articles |-> Filter(mapped)]

\* ---------------------------------------------------------------- inputs
PageA == <<"https://a", "/page">>
FeedB == <<"https://b", "/feed.xml">>

\* values of req.query['url']; Undefined is a parameter that is no string
QueryUrls ==
    { Undefined, <<>>, <<"\"", "\"">>, <<" ">>,
      PageA, FeedB, <<"\"", "https://a", "/page", "\"">>,
      <<"junk">>, <<"abort">>, <<" ", "'", "https://a", "/page">> }

Tag(rel, type, href, title) ==
    [rel |-> rel, type |-> type, href |-> href, title |-> title]

RssType == <<"application/rss+xml">>

\* the <link> tags an upstream page may hold
TagSet ==
    { Tag(<<"alternate">>, RssType, <<"/feed.xml">>, Undefined),
      Tag(<<"ALTERNATE">>, <<"Application/RSS+XML", ";", " ", "charset=utf-8">>,
          <<"https://a", "/feed.xml">>, <<"News">>),
      Tag(<<"alternate">>, <<"application/atom+xml">>, PageA, Undefined),
      Tag(<<"alternate">>, RssType, <<"http://[">>, Undefined),
      Tag(<<"stylesheet">>, <<"text/css">>, <<"/page">>, Undefined),
      Tag(<<"alternate">>, <<"text/html">>, Undefined, Undefined) }

RECURSIVE SeqsUpTo(_, _)
SeqsUpTo(S, n) ==
    IF n = 0 THEN {<<>>}
    ELSE LET shorter == SeqsUpTo(S, n - 1)
         IN shorter \cup {Append(q, x) : q \in shorter, x \in S}

HtmlTexts == SeqsUpTo(TagSet, MaxTags)

\* raw items and parsed trees
Item(title, link, pubDate, published, updated, encoded, content, description) ==
    [title |-> title, link |-> link, pubDate |-> pubDate, published |-> published,
     updated |-> updated, contentEncoded |-> encoded, content |-> content,
     description |-> description]

NoItems == [k |-> "absent", items |-> <<>>]
OneItem(it) == [k |-> "single", items |-> <<it>>]
ItemArray(its) == [k |-> "array", items |-> its]

Parsed(root, channel, title, items) ==
    [root |-> root, channel |-> channel, title |-> title, items |-> items]

Link1 == <<"https://a", "/1">>
Link2 == <<"https://a", "/2">>

GoodRssItem ==
    Item(StrN(<<"A">>), StrL(Link1), StrN(<<"rfc822", "t1">>), AbsentN, AbsentN,
         AbsentN, AbsentN, StrN(<<"h", "i">>))
GoodAtomEntry ==
    Item(ObjN(Undefined, <<"B">>), ObjL(Link2), AbsentN, StrN(<<"iso8601", "t2">>),
         AbsentN, AbsentN, ObjN(Undefined, <<"h", "i">>), AbsentN)
NoLinkItem ==
    Item(StrN(<<"A">>), AbsentL, AbsentN, AbsentN, AbsentN, AbsentN, AbsentN, AbsentN)

\* the trees the upstream of /feed may serve
FeedTrees ==
    { Parsed("rss", TRUE, StrN(<<"Feed">>), ItemArray(<<GoodRssItem, NoLinkItem>>)),
      Parsed("rss", TRUE, AbsentN, OneItem(GoodRssItem)),
      Parsed("rss", FALSE, AbsentN, NoItems),
      Parsed("feed", TRUE, ObjN(Undefined, <<"Feed">>), OneItem(GoodAtomEntry)),
      Parsed("feed", TRUE, AbsentN, NoItems),
      Parsed("none", TRUE, AbsentN, NoItems) }

\* a 2xx response of the upstream: its content-type header, the first
\* characters of its body, the <link> tags in it and the tree the XML parser
\* makes of it
Resp(ct, prefix, tags, tree) ==
    [ct |-> ct, prefix |-> prefix, tags |-> tags, tree |-> tree]

NoTree == Parsed("none", TRUE, AbsentN, NoItems)

HtmlResponses ==
    { Resp(ct, <<"<!">>, tags, NoTree) :
        ct \in {<<"text/html", ";", " ", "charset=utf-8">>, <<>>}, tags \in HtmlTexts }
    \cup { Resp(<<"text/html">>, <<"<html">>, tags, NoTree) : tags \in HtmlTexts }
    \cup { Resp(<<"application/xml">>, <<" ", "<!">>, <<>>, NoTree) }

XmlResponses ==
    { Resp(ct, <<"<?xml">>, <<>>, tree) :
        ct \in {RssType, <<>>}, tree \in FeedTrees }

\* response.headers.get('content-type') ?? '' contains text/html, or the
\* body starts with <! after trimStart (line 140)
isHtml(resp) ==
    Includes(resp.ct, "text/html")
    \/ (TrimStart(resp.prefix) # <<>> /\ Head(TrimStart(resp.prefix)) = "<!")

\* what a rejected fetch or body read throws: err.message
TimeoutMessage == <<"The operation was ", "abort", "ed due to timeout">>
NetworkMessage == <<"fetch failed">>
ParseUrlMessage(u) == <<"Failed to parse URL from ">> \o u
ChannelMessage == <<"Cannot read properties of undefined (reading 'title')">>

FetchFaults == {TimeoutMessage, NetworkMessage}

\* message.includes('timed out') || message.includes('abort') ? 504 : 500
errorStatus(message) ==
    IF Includes(message, "timed out") \/ Includes(message, "abort") THEN 504 ELSE 500

\* ------------------------------------------------------- discover.ts: probe
\* what one probe request may meet: a rejected fetch (fault), a status, a
\* content-type header, the start of the body, a rejected body read
Probe(fault, ok, ct, prefix, bodyFault) ==
    [fault |-> fault, ok |-> ok, ct |-> ct, prefix |-> prefix, bodyFault |-> bodyFault]

NoProbe == Probe(FALSE, FALSE, <<>>, <<>>, FALSE)

HeadOutcomes ==
    { Probe(TRUE, FALSE, <<>>, <<>>, FALSE),
      Probe(FALSE, FALSE, <<"text/html">>, <<>>, FALSE),
      Probe(FALSE, TRUE, <<"application/rss+xml", ";", " ", "charset=utf-8">>, <<>>, FALSE),
      Probe(FALSE, TRUE, <<"text/html">>, <<>>, FALSE) }

GetOutcomes ==
    { Probe(TRUE, FALSE, <<>>, <<>>, FALSE),
      Probe(FALSE, FALSE, <<"text/html">>, <<>>, FALSE),
      Probe(FALSE, TRUE, <<"text/xml">>, <<>>, FALSE),
      Probe(FALSE, TRUE, <<"text/html">>, <<" ", "<?xml">>, FALSE),
      Probe(FALSE, TRUE, <<>>, <<"<html", "#pad512", "<rss">>, FALSE),
      Probe(FALSE, TRUE, <<"text/html">>, <<"<rss">>, TRUE) }

\* FEED_TYPES.has(ct.split(';')[0].trim())
declaresFeed(ct) == IsFeedType(Trim(BeforeSemicolon(ct)))

\* text.slice(0, 512)
RECURSIVE Slice512(_)
Slice512(s) ==
    IF s = <<>> \/ Head(s) = "#pad512" THEN <<>>
    ELSE <<Head(s)>> \o Slice512(Tail(s))

\* line 111
sniffsFeed(text) ==
    \/ (TrimStart(text) # <<>> /\ Head(TrimStart(text)) = "<?xml")
    \/ \E t \in {"<rss", "<feed", "<rdf"} : Includes(Slice512(text), t)

\* lines 94-99: the HEAD request settles the probe only when it is 2xx
headSettles(h) == ~h.fault /\ h.ok
headVerdict(h) == declaresFeed(h.ct)

\* lines 100-114
getVerdict(g) ==
    IF g.fault \/ ~g.ok THEN FALSE
    ELSE IF declaresFeed(g.ct) THEN TRUE
    ELSE IF g.bodyFault THEN FALSE
    ELSE sniffsFeed(g.prefix)

\* the candidate list cut to its first path
candidatesFromMutFirstOnly(origin, seen, i) ==
    IF (origin \o <<COMMON_PATHS[1]>>) \in seen THEN <<>>
    ELSE <<origin \o <<COMMON_PATHS[1]>>>>

\* COMMON_PATHS.map((p) => origin + p).filter((u) => !seen.has(u)), over the
\* first MaxPaths paths
RECURSIVE candidatesFrom(_, _, _)
candidatesFrom(origin, seen, i) ==
    IF i > MaxPaths \/ i > Len(COMMON_PATHS) THEN <<>>
    ELSE (IF (origin \o <<COMMON_PATHS[i]>>) \in seen THEN <<>>
          ELSE <<origin \o <<COMMON_PATHS[i]>>>>)
         \o candidatesFrom(origin, seen, i + 1)

\* candidateUrl.split('/').pop()
LastSegment(u) ==
    LET p == u[Len(u)]
    IN CASE p = "/feed" -> <<"feed">>
         [] p = "/feed.xml" -> <<"feed.xml">>
         [] p = "/rss" -> <<"rss">>
         [] p = "/rss.xml" -> <<"rss.xml">>
         [] p = "/atom.xml" -> <<"atom.xml">>
         [] p = "/index.xml" -> <<"index.xml">>
         [] p = "/feed/index.xml" -> <<"index.xml">>
         [] p = "/blog/feed" -> <<"feed">>
         [] p = "/blog/rss" -> <<"rss">>
         [] OTHER -> <<p>>

UrlsOf(fs) == {fs[i].url : i \in 1..Len(fs)}

\* the feeds pushed as the probes settle instead of in the loop over
\* probeResults
RECURSIVE appendAsSettled(_, _, _, _)
appendAsSettled(fs, cands, oks, order) ==
    IF order = <<>> THEN fs
    ELSE appendAsSettled(
           IF oks[Head(order)]
           THEN Append(fs, [url |-> cands[Head(order)],
                            title |-> LastSegment(cands[Head(order)]),
                            type |-> RssType,
                            source |-> "probe"])
           ELSE fs,
           cands, oks, Tail(order))

\* lines 223-233: the loop over probeResults, in their order
RECURSIVE appendProbed(_, _, _, _)
appendProbed(fs, seen, cands, oks) ==
    IF cands = <<>> THEN fs
    ELSE IF Head(oks) /\ Head(cands) \notin seen
         THEN appendProbed(
                Append(fs, [url |-> Head(cands), title |-> LastSegment(Head(cands)),
                            type |-> RssType, source |-> "probe"]),
                seen \cup {Head(cands)}, Tail(cands), Tail(oks))
         ELSE appendProbed(fs, seen, Tail(cands), Tail(oks))

\* ------------------------------------------------------------------ state
VARIABLES
    route,      \* the handler serving the request: "feed" or "discover"
    reqUrl,     \* the url query parameter as the client sent it
    query,      \* req.query['url'], which fetchAndParseFeed overwrites
    pc,         \* "enter", "fetching", "probing", "done"; "idle" when unused
    url,        \* the local url of the running invocation
    fetches,    \* upstream page/feed fetches issued so far (saturating)
    redirects,  \* recursive calls of fetchAndParseFeed so far (saturating)
    status,     \* status of the response written, 0 before
    sent,       \* responses written to res
    result,     \* the JSON body written
    feeds,      \* discover's feeds / feed's discovered
    candidates, \* discover's candidates
    probes,     \* per candidate: where probeFeed stands and what it met
    settled,    \* the candidates' indexes in the order their probes settled
    frames,     \* invocations of fetchAndParseFeed suspended at line 151 (saturating)
    nArts,      \* normaliser runs: the articles both trees describe, if any
    nParsed,    \* normaliser runs: the parsed trees to normalise
    nClock,     \* normaliser runs: what new Date() gives per item
    nOut        \* normaliser runs: the FeedResults so far

reqVars == <<route, reqUrl, query, pc, url, fetches, redirects, status, sent,
             result, feeds, candidates, probes, settled, frames>>
normVars == <<nArts, nParsed, nClock, nOut>>
vars == <<route, reqUrl, query, pc, url, fetches, redirects, status, sent,
          result, feeds, candidates, probes, settled, frames,
          nArts, nParsed, nClock, nOut>>

NoResult ==
    [kind |-> "none", error |-> Empty, feedTitle |-> Empty, articles |-> <<>>,
     url |-> Empty, feeds |-> <<>>]
ErrorResult(message) == [NoResult EXCEPT !.kind = "error", !.error = message]
FeedResult(title, articles) ==
    [NoResult EXCEPT !.kind = "feed", !.feedTitle = title, !.articles = articles]
DiscoverResult(u, fs) == [NoResult EXCEPT !.kind = "discover", !.url = u, !.feeds = fs]

MissingFeedUrl == <<"Missing feed URL parameter">>
MissingSiteUrl == <<"Missing website URL parameter">>
InvalidUrlMessage(u) == <<"Invalid URL: ">> \o u
UpstreamMessage == <<"Upstream feed responded with non-OK status">>
SiteMessage == <<"Site responded with non-OK status">>
NoFeedMessage == <<"No RSS/Atom feed found on that page.">>

Bump(n) == IF n < MaxFetches THEN n + 1 ELSE n

NormIdle ==
    /\ nArts = <<>> /\ nParsed = <<>> /\ nClock = <<>> /\ nOut = <<>>

ReqInit ==
    /\ route \in {"feed", "discover"}
    /\ reqUrl \in QueryUrls
    /\ query = reqUrl
    /\ pc = "enter"
    /\ url = Empty
    /\ fetches = 0 /\ redirects = 0
    /\ status = 0 /\ sent = 0
    /\ result = NoResult
    /\ feeds = <<>> /\ candidates = <<>> /\ probes = <<>>
    /\ settled = <<>> /\ frames = 0

Init == ReqInit /\ NormIdle

\* res.status(code).json(body), and the invocation returns
Respond(code, body) ==
    /\ status' = code
    /\ sent' = sent + 1
    /\ result' = body
    /\ pc' = "done"

\* typeof req.query['url'] === 'string' ? ...replace(...).trim() : ''
cleaned(q) == IF q = Undefined THEN Empty ELSE CleanUrl(q)

\* ---------------------------------------------------- fetchAndParseFeed
\* lines 110-127: the url is cleaned; an empty one is answered 400, any
\* other is fetched
FeedEnter ==
    /\ route = "feed" /\ pc = "enter"
    /\ url' = cleaned(query)
    /\ IF cleaned(query) = Empty
       THEN /\ Respond(400, ErrorResult(MissingFeedUrl))
            /\ UNCHANGED fetches
       ELSE /\ pc' = "fetching"
            /\ fetches' = Bump(fetches)
            /\ UNCHANGED <<status, sent, result>>
    /\ UNCHANGED <<route, reqUrl, query, redirects, feeds, candidates, probes>>
    /\ UNCHANGED <<settled, frames>>
    /\ UNCHANGED normVars

\* lines 120, 136, 200-205: fetch or response.text() rejects; fetch rejects
\* at once when the url does not parse
FeedFetchThrows ==
    /\ route = "feed" /\ pc = "fetching"
    /\ \E message \in (IF IsAbsUrl(url) THEN FetchFaults ELSE {ParseUrlMessage(url)}) :
         Respond(errorStatus(message), ErrorResult(message))
    /\ UNCHANGED <<route, reqUrl, query, url, fetches, redirects, feeds, candidates, probes>>
    /\ UNCHANGED <<settled, frames>>
    /\ UNCHANGED normVars

\* lines 129-134
FeedUpstreamNotOk ==
    /\ route = "feed" /\ pc = "fetching"
    /\ IsAbsUrl(url)
    /\ Respond(502, ErrorResult(UpstreamMessage))
    /\ UNCHANGED <<route, reqUrl, query, url, fetches, redirects, feeds, candidates, probes>>
    /\ UNCHANGED <<settled, frames>>
    /\ UNCHANGED normVars

\* the same step falling back to the probes of /discover instead of answering
FeedHtmlNoFeedMutProbes ==
    /\ route = "feed" /\ pc = "fetching"
    /\ IsAbsUrl(url)
    /\ \E resp \in HtmlResponses \cup XmlResponses :
         /\ isHtml(resp)
         /\ extractFeedLinks(resp.tags, url) = <<>>
    /\ feeds' = <<>>
    /\ candidates' = candidatesFrom(OriginOf(url), {}, 1)
    /\ probes' = [i \in 1..Len(candidatesFrom(OriginOf(url), {}, 1)) |->
                    [at |-> "head", head |-> NoProbe, get |-> NoProbe, ok |-> FALSE]]
    /\ pc' = "probing"
    /\ UNCHANGED <<route, reqUrl, query, url, fetches, redirects, status, sent, result>>
    /\ UNCHANGED <<settled, frames>>
    /\ UNCHANGED normVars

\* lines 138-148: an HTML body in which extractFeedLinks finds nothing
FeedHtmlNoFeed ==
    /\ route = "feed" /\ pc = "fetching"
    /\ IsAbsUrl(url)
    /\ \E resp \in HtmlResponses \cup XmlResponses :
         /\ isHtml(resp)
         /\ extractFeedLinks(resp.tags, url) = <<>>
    /\ feeds' = <<>>
    /\ Respond(422, ErrorResult(NoFeedMessage))
    /\ UNCHANGED <<route, reqUrl, query, url, fetches, redirects, candidates, probes>>
    /\ UNCHANGED <<settled, frames>>
    /\ UNCHANGED normVars

\* lines 149-152: the first discovered url replaces req.query['url'] and
\* fetchAndParseFeed calls itself
FeedHtmlRedirect ==
    /\ route = "feed" /\ pc = "fetching"
    /\ IsAbsUrl(url)
    /\ \E discovered \in { extractFeedLinks(resp.tags, url) :
                                resp \in {r \in HtmlResponses \cup XmlResponses : isHtml(r)} } :
         /\ discovered # <<>>
         /\ feeds' = discovered
         /\ query' = discovered[1].url
    /\ redirects' = Bump(redirects)
    /\ pc' = "enter"
    /\ UNCHANGED <<route, reqUrl, url, fetches, status, sent, result, candidates, probes>>
    /\ UNCHANGED settled
    /\ frames' = Bump(frames)
    /\ UNCHANGED normVars

\* lines 154-199: a body that is not HTML is parsed and normalised; a throw
\* in there is caught at lines 200-205
FeedParsed ==
    /\ route = "feed" /\ pc = "fetching"
    /\ IsAbsUrl(url)
    /\ \E resp \in {r \in HtmlResponses \cup XmlResponses : ~isHtml(r)} :
            LET out == Normalise(resp.tree, url, [i \in 1..MaxItems |-> "n1"])
            IN IF out.ok
               THEN Respond(200, FeedResult(out.feedTitle, out.articles))
               ELSE Respond(errorStatus(ChannelMessage), ErrorResult(ChannelMessage))
    /\ UNCHANGED <<route, reqUrl, query, url, fetches, redirects, feeds, candidates, probes>>
    /\ UNCHANGED <<settled, frames>>
    /\ UNCHANGED normVars

\* the same step without the return of line 152: the outer invocation goes on
\* to parse the HTML body and answers a second time
FeedReturnMutFallsThrough ==
    /\ route = "feed" /\ pc = "done" /\ frames > 0
    /\ frames' = frames - 1
    /\ status' = 200
    /\ sent' = sent + 1
    /\ result' = FeedResult(url, <<>>)
    /\ UNCHANGED <<route, reqUrl, query, pc, url, fetches, redirects, feeds,
                   candidates, probes, settled>>
    /\ UNCHANGED normVars

\* lines 151-152: the recursive call has returned, having answered; the
\* suspended invocation resumes and returns
FeedReturn ==
    /\ route = "feed" /\ pc = "done" /\ frames > 0
    /\ frames' = frames - 1
    /\ UNCHANGED <<route, reqUrl, query, pc, url, fetches, redirects, status, sent,
                   result, feeds, candidates, probes, settled>>
    /\ UNCHANGED normVars

FeedNext ==
    \/ FeedReturn
    \/ FeedEnter
    \/ FeedFetchThrows
    \/ FeedUpstreamNotOk
    \/ FeedHtmlNoFeed
    \/ FeedHtmlRedirect
    \/ FeedParsed

\* ------------------------------------------------------- GET /discover
\* lines 171-194: the url is cleaned, an empty or unparsable one is answered
\* 400, any other is fetched
DiscoverEnter ==
    /\ route = "discover" /\ pc = "enter"
    /\ url' = cleaned(query)
    /\ IF cleaned(query) = Empty
       THEN /\ Respond(400, ErrorResult(MissingSiteUrl))
            /\ UNCHANGED fetches
       ELSE IF ~IsAbsUrl(cleaned(query))
       THEN /\ Respond(400, ErrorResult(InvalidUrlMessage(cleaned(query))))
            /\ UNCHANGED fetches
       ELSE /\ pc' = "fetching"
            /\ fetches' = Bump(fetches)
            /\ UNCHANGED <<status, sent, result>>
    /\ UNCHANGED <<route, reqUrl, query, redirects, feeds, candidates, probes>>
    /\ UNCHANGED <<settled, frames>>
    /\ UNCHANGED normVars

\* lines 188, 203, 237-242
DiscoverFetchThrows ==
    /\ route = "discover" /\ pc = "fetching"
    /\ \E message \in FetchFaults :
         Respond(errorStatus(message), ErrorResult(message))
    /\ UNCHANGED <<route, reqUrl, query, url, fetches, redirects, feeds, candidates, probes>>
    /\ UNCHANGED <<settled, frames>>
    /\ UNCHANGED normVars

\* lines 196-201
DiscoverSiteNotOk ==
    /\ route = "discover" /\ pc = "fetching"
    /\ Respond(502, ErrorResult(SiteMessage))
    /\ UNCHANGED <<route, reqUrl, query, url, fetches, redirects, feeds, candidates, probes>>
    /\ UNCHANGED <<settled, frames>>
    /\ UNCHANGED normVars

\* lines 203-212, 236: the page declares feed links; they are the answer
DiscoverLinksFound ==
    /\ route = "discover" /\ pc = "fetching"
    /\ \E found \in { extractFeedLinks(html, url) : html \in HtmlTexts } :
         /\ found # <<>>
         /\ feeds' = found
         /\ Respond(200, DiscoverResult(url, found))
    /\ UNCHANGED <<route, reqUrl, query, url, fetches, redirects, candidates, probes>>
    /\ UNCHANGED <<settled, frames>>
    /\ UNCHANGED normVars

\* lines 212-221: no link declared; every candidate's probeFeed is started,
\* each running to its first await, the HEAD request
DiscoverDispatch ==
    /\ route = "discover" /\ pc = "fetching"
    /\ \E html \in HtmlTexts : extractFeedLinks(html, url) = <<>>
    /\ feeds' = <<>>
    /\ LET cands == candidatesFrom(OriginOf(url), {}, 1)
       IN /\ candidates' = cands
          /\ probes' = [i \in 1..Len(cands) |->
                          [at |-> "head", head |-> NoProbe, get |-> NoProbe, ok |-> FALSE]]
    /\ pc' = "probing"
    /\ UNCHANGED <<route, reqUrl, query, url, fetches, redirects, status, sent, result>>
    /\ UNCHANGED <<settled, frames>>
    /\ UNCHANGED normVars

\* lines 94-100: a probe's HEAD request settles; a 2xx answer decides the
\* probe, anything else starts the GET request
ProbeHead ==
    /\ route = "discover" /\ pc = "probing"
    /\ \E i \in 1..Len(probes), h \in HeadOutcomes :
         /\ probes[i].at = "head"
         /\ probes' = [probes EXCEPT ![i] =
                IF headSettles(h)
                THEN [at |-> "done", head |-> h, get |-> NoProbe, ok |-> headVerdict(h)]
                ELSE [at |-> "get", head |-> h, get |-> NoProbe, ok |-> FALSE]]
         /\ settled' = IF headSettles(h) THEN Append(settled, i) ELSE settled
    /\ UNCHANGED <<route, reqUrl, query, pc, url, fetches, redirects, status, sent,
                   result, feeds, candidates>>
    /\ UNCHANGED frames
    /\ UNCHANGED normVars

\* lines 100-114: a probe's GET request settles
ProbeGet ==
    /\ route = "discover" /\ pc = "probing"
    /\ \E i \in 1..Len(probes), g \in GetOutcomes :
         /\ probes[i].at = "get"
         /\ probes' = [probes EXCEPT ![i] =
                [at |-> "done", head |-> probes[i].head, get |-> g, ok |-> getVerdict(g)]]
         /\ settled' = Append(settled, i)
    /\ UNCHANGED <<route, reqUrl, query, pc, url, fetches, redirects, status, sent,
                   result, feeds, candidates>>
    /\ UNCHANGED frames
    /\ UNCHANGED normVars

\* the same step with the feeds pushed in the order the probes settled in
DiscoverJoinMutAsSettled ==
    /\ route = "discover" /\ pc = "probing"
    /\ \A i \in 1..Len(probes) : probes[i].at = "done"
    /\ LET oks == [i \in 1..Len(probes) |-> probes[i].ok]
           fs == appendAsSettled(feeds, candidates, oks, settled)
       IN /\ feeds' = fs
          /\ Respond(200, DiscoverResult(url, fs))
    /\ UNCHANGED <<route, reqUrl, query, url, fetches, redirects, candidates, probes>>
    /\ UNCHANGED <<settled, frames>>
    /\ UNCHANGED normVars

\* the same step with probeFeed letting its faults through: Promise.all
\* rejects and the catch of the handler answers
DiscoverJoinMutRejects ==
    /\ route = "discover" /\ pc = "probing"
    /\ \A i \in 1..Len(probes) : probes[i].at = "done"
    /\ LET oks == [i \in 1..Len(probes) |-> probes[i].ok]
           fs == appendProbed(feeds, UrlsOf(feeds), candidates, oks)
       IN IF \E i \in 1..Len(probes) :
                probes[i].head.fault \/ probes[i].get.fault \/ probes[i].get.bodyFault
          THEN /\ feeds' = feeds
               /\ Respond(errorStatus(NetworkMessage), ErrorResult(NetworkMessage))
          ELSE /\ feeds' = fs
               /\ Respond(200, DiscoverResult(url, fs))
    /\ UNCHANGED <<route, reqUrl, query, url, fetches, redirects, candidates, probes>>
    /\ UNCHANGED <<settled, frames>>
    /\ UNCHANGED normVars

\* lines 216-236: Promise.all resolves once every probe has settled; the
\* feeds are appended in candidate order and the result is sent
DiscoverJoin ==
    /\ route = "discover" /\ pc = "probing"
    /\ \A i \in 1..Len(probes) : probes[i].at = "done"
    /\ LET oks == [i \in 1..Len(probes) |-> probes[i].ok]
           fs == appendProbed(feeds, UrlsOf(feeds), candidates, oks)
       IN /\ feeds' = fs
          /\ Respond(200, DiscoverResult(url, fs))
    /\ UNCHANGED <<route, reqUrl, query, url, fetches, redirects, candidates, probes>>
    /\ UNCHANGED <<settled, frames>>
    /\ UNCHANGED normVars

DiscoverNext ==
    \/ DiscoverEnter
    \/ DiscoverFetchThrows
    \/ DiscoverSiteNotOk
    \/ DiscoverLinksFound
    \/ DiscoverDispatch
    \/ ProbeHead
    \/ ProbeGet
    \/ DiscoverJoin

Next == FeedNext \/ DiscoverNext

Spec == Init /\ [][Next]_vars

\* every awaited fetch settles: it returns, fails or is aborted by its
\* AbortSignal.timeout, so a handler that can take a step takes one
FairSpec == Init /\ [][Next]_vars /\ WF_vars(Next)

\* ------------------------------------------------- runs of the normaliser
\* article content of length n
ContentOfLen(n) ==
    [i \in 1..n |-> IF i % 4 = 0 THEN "." ELSE IF i % 2 = 0 THEN "x" ELSE "y"]

Short == <<"h", "i">>
Long == ContentOfLen(SNIPPET_LEN + 1)

Rel(rel, href) == [rel |-> rel, href |-> href]

\* raw items that differ from GoodRssItem in one field
TitleNodes ==
    { AbsentN, StrN(Empty), StrN(<<"A">>), ObjN(<<"C">>, Undefined),
      ObjN(<<"C">>, <<"B">>), ObjN(Undefined, <<"B">>), ObjN(Undefined, Undefined),
      NumN(0), NumN(7) }
LinkNodes ==
    { AbsentL, StrL(Empty), StrL(Link1), NumL, ObjL(Link2), ObjL(Undefined),
      ArrL(<<Rel(<<"self">>, Link2), Rel(<<"alternate">>, Link1)>>),
      ArrL(<<Rel(Undefined, Link2), Rel(<<"alternate">>, Link1)>>),
      ArrL(<<Rel(<<"enclosure">>, Link2)>>),
      ArrL(<<Rel(<<"alternate">>, Undefined), Rel(<<"alternate">>, Link1)>>) }
ItemSet ==
    { [GoodRssItem EXCEPT !.title = t] : t \in TitleNodes }
    \cup { [GoodRssItem EXCEPT !.link = l] : l \in LinkNodes }
    \cup { [GoodRssItem EXCEPT !.pubDate = d] :
             d \in {AbsentN, StrN(Empty), StrN(<<"not a date">>)} }
    \cup { [GoodRssItem EXCEPT !.pubDate = AbsentN, !.published = StrN(<<"iso8601", "t2">>),
                               !.updated = StrN(<<"iso8601", "t1">>)],
           [GoodRssItem EXCEPT !.pubDate = AbsentN, !.updated = StrN(<<"iso8601", "t1">>)] }
    \cup { [GoodRssItem EXCEPT !.contentEncoded = ObjN(Long, Undefined)],
           [GoodRssItem EXCEPT !.content = StrN(ContentOfLen(SNIPPET_LEN))],
           [GoodRssItem EXCEPT !.description = AbsentN] }

\* the items arrays are drawn from
CoreItems ==
    { GoodRssItem, GoodAtomEntry, NoLinkItem,
      [GoodAtomEntry EXCEPT !.title = AbsentN] }

NormTrees ==
    { Parsed(root, TRUE, title, items) :
        root \in {"rss", "feed"},
        title \in {AbsentN, StrN(<<"Feed">>)},
        items \in {NoItems} \cup {OneItem(it) : it \in ItemSet}
                  \cup {ItemArray(its) : its \in SeqsUpTo(CoreItems, MaxItems)} }
    \cup { Parsed("rss", FALSE, AbsentN, NoItems),
           Parsed("none", TRUE, AbsentN, NoItems) }

\* a tree whose one item has content of length n
TreeOfLen(n) ==
    Parsed("rss", TRUE, StrN(<<"Feed">>),
           OneItem([GoodRssItem EXCEPT !.description = StrN(ContentOfLen(n))]))

\* articles as a publisher means them, and the two trees that carry them
LogicalArticle(title, link, date, content) ==
    [title |-> title, link |-> link, date |-> date, content |-> content]

LogicalArticles ==
    { LogicalArticle(<<"A">>, Link1, "t1", Short),
      LogicalArticle(<<"B">>, Link2, "t2", Long),
      LogicalArticle(<<"A">>, Link2, "t1", Empty),
      LogicalArticle(Empty, Link1, "t2", Short),
      LogicalArticle(<<"B">>, Empty, "t1", Short) }

itemsField(its) ==
    IF its = <<>> THEN NoItems
    ELSE IF Len(its) = 1 THEN OneItem(its[1]) ELSE ItemArray(its)

\* <item><title/><link/><pubDate/><description/></item>
RssItemOf(a) ==
    Item(StrN(a.title), StrL(a.link), StrN(<<"rfc822", a.date>>), AbsentN, AbsentN,
         AbsentN, AbsentN, StrN(a.content))
RssOf(arts) ==
    Parsed("rss", TRUE, StrN(<<"Feed">>),
           itemsField([i \in 1..Len(arts) |-> RssItemOf(arts[i])]))

\* an element that carries an attribute (type="html") parses to an
\* attribute map; its text is the #text entry, which an empty element lacks
TextLeaf(str, typed) ==
    IF ~typed THEN StrN(str)
    ELSE ObjN(Undefined, IF str = Empty THEN Undefined ELSE str)

\* <entry><title/><link href/><published/><updated/><content/></entry>
AtomEntryOf(a, v) ==
    Item(TextLeaf(a.title, v.typed),
         IF v.linkArray
         THEN ArrL(<<Rel(<<"self">>, <<"https://a", "/self">>), Rel(<<"alternate">>, a.link)>>)
         ELSE ObjL(a.link),
         AbsentN,
         IF v.updatedOnly THEN AbsentN ELSE StrN(<<"iso8601", a.date>>),
         StrN(<<"iso8601", a.date>>),
         AbsentN, TextLeaf(a.content, v.typed), AbsentN)
AtomOf(arts, v) ==
    Parsed("feed", TRUE, StrN(<<"Feed">>),
           itemsField([i \in 1..Len(arts) |-> AtomEntryOf(arts[i], v)]))

AtomVariants == [typed : BOOLEAN, linkArray : BOOLEAN, updatedOnly : BOOLEAN]

NoVariant == [typed |-> FALSE, linkArray |-> FALSE, updatedOnly |-> FALSE]

ReqIdle ==
    /\ route = "none" /\ reqUrl = Undefined /\ query = Undefined
    /\ pc = "idle" /\ url = FeedB
    /\ fetches = 0 /\ redirects = 0 /\ status = 0 /\ sent = 0
    /\ result = NoResult
    /\ feeds = <<>> /\ candidates = <<>> /\ probes = <<>>
    /\ settled = <<>> /\ frames = 0

NormInit ==
    /\ ReqIdle
    /\ nOut = <<>>
    /\ \/ /\ nArts = [pair |-> FALSE, arts |-> <<>>, variant |-> NoVariant]
          /\ nParsed \in {<<t>> : t \in NormTrees}
          /\ nClock \in [1..MaxItems -> {"n1", "n2"}]
       \/ /\ nArts = [pair |-> FALSE, arts |-> <<>>, variant |-> NoVariant]
          /\ nParsed \in {<<TreeOfLen(n)>> : n \in 0..MaxContentLen}
          /\ nClock = [i \in 1..MaxItems |-> "n1"]
       \/ /\ nArts \in [pair : {TRUE}, arts : SeqsUpTo(LogicalArticles, MaxItems),
                        variant : AtomVariants]
          /\ nParsed = <<RssOf(nArts.arts), AtomOf(nArts.arts, nArts.variant)>>
          /\ nClock = [i \in 1..MaxItems |-> "n1"]

\* lines 154-199 applied to the next tree
NormaliseTree ==
    /\ pc = "idle"
    /\ Len(nOut) < Len(nParsed)
    /\ nOut' = Append(nOut, Normalise(nParsed[Len(nOut) + 1], url, nClock))
    /\ UNCHANGED <<nArts, nParsed, nClock>>
    /\ UNCHANGED reqVars

SpecNorm == NormInit /\ [][NormaliseTree]_vars

\* ================================================================ claims
NoDuplicates(fs) == \A i, j \in 1..Len(fs) : i # j => fs[i].url # fs[j].url

\* C1: a /feed request makes at most one recursive re-fetch, hence at most
\* two upstream fetches, whatever the upstream answers.
C1_OneHopLimit == route = "feed" => (redirects <= 1 /\ fetches <= 2)

\* C2: every /feed request eventually reaches Done with a response sent,
\* provided each upstream fetch settles.
C2_FeedTerminates == (route = "feed") => <>(pc = "done" /\ sent = 1)

\* C3: no two entries of the feeds of a DiscoverResult have the same url.
C3_DedupInvariant ==
    (route = "discover" /\ result.kind = "discover") => NoDuplicates(result.feeds)

\* C4 as claimed: /feed answers 422 only after the whole orchestrator,
\* probing of the conventional paths included, has found nothing.
C4_FullOrchestrator ==
    (route = "feed" /\ status = 422) =>
        /\ candidates = candidatesFrom(OriginOf(url), {}, 1)
        /\ \A i \in 1..Len(candidates) : i \in DOMAIN probes /\ probes[i].at = "done"

\* C4 as amended: on /feed an HTML body goes through link extraction alone;
\* no conventional path is ever probed, and 422 is the answer when the
\* extraction found no link.
C4_LinkExtractionOnly ==
    route = "feed" =>
        /\ candidates = <<>> /\ probes = <<>>
        /\ status = 422 => (feeds = <<>> /\ fetches >= 1 /\ IsAbsUrl(url))

C4_Witness == route = "feed" /\ status = 422 /\ feeds = <<>> /\ sent = 1

\* C5: on both entry points a url that is empty after cleaning, or that does
\* not parse as an absolute URL, is answered 400.
C5_BadUrlIs400 ==
    (status # 0 /\ (cleaned(reqUrl) = Empty \/ ~IsAbsUrl(cleaned(reqUrl))))
        => status = 400

\* C6: /discover probes exactly when link extraction found nothing: with a
\* link found no probe is started and the result holds html-link entries
\* only; with none found every conventional path on the request's origin is
\* probed and the result holds probe entries only.
C6_ProbeIffNoLinks ==
    route = "discover" =>
        /\ pc = "probing" =>
             /\ feeds = <<>>
             /\ candidates = [i \in 1..MaxPaths |-> OriginOf(url) \o <<COMMON_PATHS[i]>>]
             /\ DOMAIN probes = 1..MaxPaths
        /\ result.kind = "discover" =>
             \/ /\ probes = <<>> /\ candidates = <<>>
                /\ result.feeds # <<>>
                /\ \A i \in 1..Len(result.feeds) : result.feeds[i].source = "html-link"
             \/ /\ candidates = [i \in 1..MaxPaths |-> OriginOf(url) \o <<COMMON_PATHS[i]>>]
                /\ DOMAIN probes = 1..MaxPaths
                /\ \A i \in 1..MaxPaths : probes[i].at = "done"
                /\ \A i \in 1..Len(result.feeds) : result.feeds[i].source = "probe"

C6_Witness ==
    /\ route = "discover" /\ status = 200
    /\ Len(result.feeds) = 1 /\ result.feeds[1].source = "probe"
    /\ \E i \in 1..Len(probes) : ~probes[i].ok

\* the raw items of a tree, mapped but not yet filtered
MappedOf(parsed, clock) ==
    LET rawItems == IF parsed.root \in {"rss", "feed"} THEN rawItemsOf(parsed.items) ELSE <<>>
    IN [i \in 1..Len(rawItems) |-> toArticle(rawItems[i], clock[i])]

Complete(a) == a.link # Empty /\ a.title # Empty

\* C7: every Article returned has a non-empty link and a non-empty title;
\* the items that lack one are dropped, the others keep document order, and
\* dropping does not make the normalisation fail.
C7_FilterInvariant ==
    \A r \in 1..Len(nOut) :
        LET mapped == MappedOf(nParsed[r], nClock)
            kept == {i \in 1..Len(mapped) : Complete(mapped[i])}
            arts == nOut[r].articles
        IN /\ nOut[r].ok <=> ~(nParsed[r].root = "rss" /\ ~nParsed[r].channel)
           /\ \A j \in 1..Len(arts) : Complete(arts[j])
           /\ nOut[r].ok => Len(arts) = Cardinality(kept)
           /\ \A j \in 1..Len(arts) :
                \E i \in kept : /\ Cardinality({k \in kept : k < i}) = j - 1
                                /\ arts[j] = mapped[i]

C7_Witness ==
    /\ Len(nOut) = 1 /\ nOut[1].ok
    /\ Len(nOut[1].articles) = 1
    /\ Len(rawItemsOf(nParsed[1].items)) = 2
    /\ nOut[1].articles[1].title = <<"B">>

\* C8: a feed that declares no title, and a tree with neither root, gets the
\* requested URL as feedTitle.
C8_FeedTitleDefault ==
    \A r \in 1..Len(nOut) :
        (nOut[r].ok /\ (nParsed[r].title.k = "absent" \/ nParsed[r].root = "none"))
            => nOut[r].feedTitle = url

\* C9: contentSnippet is the first min(L, 300) characters of content,
\* followed by the three-character ellipsis exactly when L > 300.
C9_TruncationLaw ==
    \A r \in 1..Len(nOut) : \A j \in 1..Len(nOut[r].articles) :
        LET a == nOut[r].articles[j]
            L == Len(a.content)
            S == a.contentSnippet
        IN /\ Len(S) <= 303
           /\ L <= 300 => S = a.content
           /\ L > 300 =>
                /\ Len(S) = 303
                /\ \A i \in 1..300 : S[i] = a.content[i]
                /\ \A i \in 301..303 : S[i] = "."

C9_Witness ==
    /\ Len(nOut) = 1 /\ Len(nOut[1].articles) = 1
    /\ Len(nOut[1].articles[1].content) = MaxContentLen
    /\ Len(nOut[1].articles[1].contentSnippet) = 303

\* C10: an RSS tree and an Atom tree that describe the same articles, dates
\* parseable, normalise to the same Article sequence.
C10_FormatTransparency ==
    (nArts.pair /\ Len(nOut) = 2) => nOut[1].articles = nOut[2].articles

\* the probe has issued its GET request
GetIssued(p) == p.at = "get" \/ p.get # NoProbe

\* a GET answer that shows a feed: 2xx, and a recognised type or a body that
\* looks like XML
GetShowsFeed(g) ==
    ~g.fault /\ g.ok /\ (declaresFeed(g.ct) \/ (~g.bodyFault /\ sniffsFeed(g.prefix)))

\* C11: a candidate is a feed exactly when HEAD is 2xx with a
\* recognised type, or HEAD is anything else and GET shows a feed; a 2xx HEAD
\* with an unrecognised type still leads to the GET request.
C11_ProbeAsClaimed ==
    route = "discover" =>
        \A i \in 1..Len(probes) : probes[i].at = "done" =>
            LET h == probes[i].head
                g == probes[i].get
                headFeed == ~h.fault /\ h.ok /\ declaresFeed(h.ct)
            IN /\ ~headFeed => GetIssued(probes[i])
               /\ probes[i].ok <=> (headFeed \/ (GetIssued(probes[i]) /\ GetShowsFeed(g)))

\* the indexes of the candidates whose probe found a feed
FoundIdx == {i \in 1..Len(probes) : probes[i].ok}

\* C12: the probe entries of the result are in candidate-list order, whatever
\* order the probes settled in, and the answer is written only once every
\* probe has settled.
C12_CandidateOrder ==
    (route = "discover" /\ probes # <<>>) =>
        /\ status # 0 => \A i \in 1..Len(probes) : probes[i].at = "done"
        /\ Len(settled) = Cardinality({i \in 1..Len(probes) : probes[i].at = "done"})
        /\ result.kind = "discover" =>
             /\ Len(result.feeds) = Cardinality(FoundIdx)
             /\ \A j \in 1..Len(result.feeds) :
                  \E i \in FoundIdx :
                     /\ Cardinality({k \in FoundIdx : k < i}) = j - 1
                     /\ result.feeds[j].url = candidates[i]
                     /\ result.feeds[j].source = "probe"

C12_Witness ==
    /\ route = "discover" /\ status = 200 /\ result.kind = "discover"
    /\ Len(result.feeds) = 2
    /\ settled = <<2, 1>>
    /\ result.feeds[1].url = candidates[1]

\* the request of this probe that decided it met a fault, a timeout, a
\* non-2xx status or a body that could not be read
ProbeFailed(p) ==
    /\ p.at = "done"
    /\ GetIssued(p)
    /\ p.get.fault \/ ~p.get.ok \/ (p.get.bodyFault /\ ~declaresFeed(p.get.ct))

\* C13: a failure of one probe makes that candidate not-a-feed and nothing
\* else: every other candidate is in the result exactly when its own probe
\* found a feed, and the answer is 200, with no feeds when all probes fail.
C13_FailureIsolation ==
    (route = "discover" /\ probes # <<>>) =>
        /\ status \in {0, 200}
        /\ \A i \in 1..Len(probes) : ProbeFailed(probes[i]) => ~probes[i].ok
        /\ status # 0 =>
             /\ result.kind = "discover"
             /\ \A i \in 1..Len(probes) :
                  (candidates[i] \in UrlsOf(result.feeds)) <=> probes[i].ok
             /\ (\A i \in 1..Len(probes) : ProbeFailed(probes[i])) => result.feeds = <<>>

C13_Witness ==
    /\ route = "discover" /\ status = 200 /\ result.feeds = <<>>
    /\ Len(probes) >= 2
    /\ probes[1].head.fault /\ probes[1].get.fault
    /\ probes[2].head.fault /\ probes[2].get.bodyFault

\* the relation attribute is alternate or unset
RelMatches(e) == e.rel = <<"alternate">> \/ e.rel = Undefined \/ e.rel = Empty

HrefOf(e) == IF e.href # Undefined THEN e.href ELSE Empty

First(S) == CHOOSE i \in S : \A k \in S : i <= k

\* the link C14 claims: of an array, the href of the first entry whose
\* relation matches
ClaimedLink(raw) ==
    CASE raw.k = "str" -> raw.v
      [] raw.k = "obj" -> HrefOf(raw)
      [] raw.k = "arr" ->
           LET m == {i \in 1..Len(raw.els) : RelMatches(raw.els[i])}
           IN IF m = {} THEN Empty ELSE HrefOf(raw.els[First(m)])
      [] OTHER -> Empty

\* the link as amended: of an array, the href of the first entry whose
\* relation matches and which has a string href
AmendedLink(raw) ==
    CASE raw.k = "str" -> raw.v
      [] raw.k = "obj" -> HrefOf(raw)
      [] raw.k = "arr" ->
           LET m == {i \in 1..Len(raw.els) :
                        RelMatches(raw.els[i]) /\ raw.els[i].href # Undefined}
           IN IF m = {} THEN Empty ELSE raw.els[First(m)].href
      [] OTHER -> Empty

NonEmpty(str) == str # Empty

\* the items of a parsed tree, as lines 154-171 find them
ItemsOfTree(parsed) ==
    IF parsed.root \in {"rss", "feed"} THEN rawItemsOf(parsed.items) ELSE <<>>

\* the links of the articles kept, when links[i] is the link of item i: items
\* without a title or a link give none
LinksDue(rawItems, links) ==
    SelectSeq([i \in 1..Len(rawItems) |->
                 IF extractText(rawItems[i].title) = Empty THEN Empty ELSE links[i]],
              NonEmpty)

LinksOut(out) == [j \in 1..Len(out.articles) |-> out.articles[j].link]

\* C14 as claimed
C14_LinkAsClaimed ==
    \A r \in 1..Len(nOut) : nOut[r].ok =>
        LET rawItems == ItemsOfTree(nParsed[r])
        IN LinksOut(nOut[r]) =
             LinksDue(rawItems, [i \in 1..Len(rawItems) |-> ClaimedLink(rawItems[i].link)])

\* C14 as amended: a string link is returned as it is, a link object gives
\* its href, an array gives the href of the first entry whose relation is
\* alternate or unset and which has a string href; otherwise the link is
\* empty and the item is dropped.
C14_LinkExtraction ==
    \A r \in 1..Len(nOut) : nOut[r].ok =>
        LET rawItems == ItemsOfTree(nParsed[r])
        IN LinksOut(nOut[r]) =
             LinksDue(rawItems, [i \in 1..Len(rawItems) |-> AmendedLink(rawItems[i].link)])

C14_Witness ==
    /\ Len(nOut) = 1 /\ nOut[1].ok
    /\ nParsed[1].items.k = "single"
    /\ nParsed[1].items.items[1].link.k = "arr"
    /\ nParsed[1].items.items[1].link.els[1].href = Undefined
    /\ LinksOut(nOut[1]) = <<Link1>>

\* C15: at most one response is written for a /feed request, on every path;
\* an invocation that resumes after its recursive call writes nothing.
C15_ExactlyOnce ==
    route = "feed" =>
        /\ sent <= 1
        /\ sent = 1 <=> status # 0
        /\ pc = "done" <=> sent = 1

C15_Witness ==
    /\ route = "feed" /\ pc = "done" /\ sent = 1
    /\ redirects >= 1 /\ frames = 0

====
